---- MODULE Spec2Model ----
(***************************************************************************)
(* The rule engine of the squawk linter (linter/src/lib.rs): the lazily    *)
(* built rule table RULES, the entry point check_sql and the unit test     *)
(* test_parsing_rule_kind.  check_sql callers and the test are threads of  *)
(* one process; the only state they share is the lazy_static cell of       *)
(* RULES.                                                                  *)
(*                                                                         *)
(* The modules `violations`, `rules` and the crate squawk_parser are not   *)
(* part of the source at hand.  What the engine needs of them              *)
(* (RuleViolationKind's string conversions, the rule functions, the        *)
(* parser) is modelled from the specification and marked so below.         *)
(***************************************************************************)
EXTENDS Integers, Sequences, FiniteSets, TLC

(***************************************************************************)
(* Bounds of the model.                                                    *)
(***************************************************************************)
\* A source text holds at most MaxStmts statements.
MaxStmts == 2
\* Offsets into the source text are 0 .. MaxPos.
MaxPos == 1
\* An exclusion list holds at most MaxExcl names.
MaxExcl == 2

\* The threads of the process: two callers of check_sql and the thread that
\* runs test_parsing_rule_kind.
Calls == {"call1", "call2"}
Tester == "test"
Threads == Calls \cup {Tester}

(***************************************************************************)
(* RuleViolationKind and its conversions (violations.rs, modelled from the *)
(* specification: a closed set of tags, each with one lowercase-hyphenated *)
(* canonical name).                                                        *)
(***************************************************************************)
RuleViolationKind ==
    { "RequireConcurrentIndexCreation", "RenamingColumn", "RenamingTable",
      "ChangingColumnType", "AddingNotNullableField", "AddingFieldWithDefault",
      "DisallowedUniqueConstraint", "ConstraintMissingNotValid",
      "BanDropDatabase", "PreferTextField", "PreferRobustStmts",
      "BanCharField" }

\* impl Display for RuleViolationKind: the canonical name of a kind.
to_string(kind) ==
    CASE kind = "RequireConcurrentIndexCreation" -> "require-concurrent-index-creation"
      [] kind = "RenamingColumn"                 -> "renaming-column"
      [] kind = "RenamingTable"                  -> "renaming-table"
      [] kind = "ChangingColumnType"             -> "changing-column-type"
      [] kind = "AddingNotNullableField"         -> "adding-not-nullable-field"
      [] kind = "AddingFieldWithDefault"         -> "adding-field-with-default"
      [] kind = "DisallowedUniqueConstraint"     -> "disallowed-unique-constraint"
      [] kind = "ConstraintMissingNotValid"      -> "constraint-missing-not-valid"
      [] kind = "BanDropDatabase"                -> "ban-drop-database"
      [] kind = "PreferTextField"                -> "prefer-text-field"
      [] kind = "PreferRobustStmts"              -> "prefer-robust-stmts"
      [] kind = "BanCharField"                   -> "ban-char-field"

Ok(v) == [ok |-> TRUE, value |-> v]
Err(e) == [ok |-> FALSE, value |-> e]

\* Mutant: one arm of the match is spelt after the rule function
\* (ban_char_type) instead of the kind (BanCharField).
try_from_misspelt(s) ==
    CASE s = "require-concurrent-index-creation" -> Ok("RequireConcurrentIndexCreation")
      [] s = "renaming-column"              -> Ok("RenamingColumn")
      [] s = "renaming-table"               -> Ok("RenamingTable")
      [] s = "changing-column-type"         -> Ok("ChangingColumnType")
      [] s = "adding-not-nullable-field"    -> Ok("AddingNotNullableField")
      [] s = "adding-field-with-default"    -> Ok("AddingFieldWithDefault")
      [] s = "disallowed-unique-constraint" -> Ok("DisallowedUniqueConstraint")
      [] s = "constraint-missing-not-valid" -> Ok("ConstraintMissingNotValid")
      [] s = "ban-drop-database"            -> Ok("BanDropDatabase")
      [] s = "prefer-text-field"            -> Ok("PreferTextField")
      [] s = "prefer-robust-stmts"          -> Ok("PreferRobustStmts")
      [] s = "ban-char-type"                -> Ok("BanCharField")
      [] OTHER                              -> Err("invalid rule name")

\* impl TryFrom<&str> for RuleViolationKind: a match on the string, with an
\* error for every string that is no canonical name.
try_from(s) ==
    CASE s = "require-concurrent-index-creation" -> Ok("RequireConcurrentIndexCreation")
      [] s = "renaming-column"              -> Ok("RenamingColumn")
      [] s = "renaming-table"               -> Ok("RenamingTable")
      [] s = "changing-column-type"         -> Ok("ChangingColumnType")
      [] s = "adding-not-nullable-field"    -> Ok("AddingNotNullableField")
      [] s = "adding-field-with-default"    -> Ok("AddingFieldWithDefault")
      [] s = "disallowed-unique-constraint" -> Ok("DisallowedUniqueConstraint")
      [] s = "constraint-missing-not-valid" -> Ok("ConstraintMissingNotValid")
      [] s = "ban-drop-database"            -> Ok("BanDropDatabase")
      [] s = "prefer-text-field"            -> Ok("PreferTextField")
      [] s = "prefer-robust-stmts"          -> Ok("PreferRobustStmts")
      [] s = "ban-char-field"               -> Ok("BanCharField")
      [] OTHER                              -> Err("invalid rule name")

(***************************************************************************)
(* The rule table.                                                         *)
(***************************************************************************)
Note(text) == <<"Note", text>>
Help(text) == <<"Help", text>>

SquawkRule(name, func, messages) ==
    [name |-> name, func |-> func, messages |-> messages]

\* The vec![..] expression of the lazy_static initializer.
RulesInitializer ==
    << SquawkRule("RequireConcurrentIndexCreation", "require_concurrent_index_creation",
         << Note("Creating an index blocks writes."),
            Help("Create the index CONCURRENTLY.") >>),
       SquawkRule("RenamingColumn", "renaming_column",
         << Note("Renaming a column may break existing clients.") >>),
       SquawkRule("RenamingTable", "renaming_table",
         << Note("Renaming a table may break existing clients.") >>),
       SquawkRule("ChangingColumnType", "changing_column_type",
         << Note("Requires an ACCESS EXCLUSIVE lock on the table which blocks reads."),
            Note("Changing the type may break existing clients.") >>),
       SquawkRule("AddingNotNullableField", "adding_not_nullable_field",
         << Note("Adding a NOT NULL field requires exclusive locks and table rewrites."),
            Help("Make the field nullable.") >>),
       SquawkRule("AddingFieldWithDefault", "adding_field_with_default",
         << Note("In Postgres versions <11 adding a field with a DEFAULT requires a table rewrite with an ACCESS EXCLUSIVE lock."),
            Help("Add the field as nullable, then set a default, backfill, and remove nullabilty.") >>),
       SquawkRule("DisallowedUniqueConstraint", "disallow_unique_constraint",
         << Note("Adding a UNIQUE constraint requires an ACCESS EXCLUSIVE lock which blocks reads."),
            Help("Create an index CONCURRENTLY and create the constraint using the index.") >>),
       SquawkRule("ConstraintMissingNotValid", "constraint_missing_not_valid",
         << Note("Requires a table scan to verify constraint and an ACCESS EXCLUSIVE lock which blocks reads."),
            Help("Add NOT VALID to the constraint and then VALIDATE the constraint.") >>),
       SquawkRule("BanDropDatabase", "ban_drop_database",
         << Note("Dropping a database may break existing clients.") >>),
       SquawkRule("PreferTextField", "prefer_text_field",
         << Note("Changing the size of a varchar field requires an ACCESS EXCLUSIVE lock."),
            Help("Use a text field with a check constraint.") >>),
       SquawkRule("PreferRobustStmts", "prefer_robust_stmts",
         << Help("Consider wrapping in a transaction or adding a IF NOT EXISTS clause.") >>),
       SquawkRule("BanCharField", "ban_char_type",
         << Help("Use text or varchar instead.") >>) >>

\* Mutant: the RenamingTable entry, written after "see RenamingColumn rule",
\* is registered under the name RenamingColumn.
RULES_duplicated == [RulesInitializer EXCEPT ![3].name = "RenamingColumn"]

\* The value the static RULES dereferences to once it is built.
RULES == RulesInitializer

(***************************************************************************)
(* Inputs.  A source text is the sequence of its statements.  A statement  *)
(* is malformed (the parser rejects the text), or well formed and then     *)
(* either of no interest to any rule or matched by one rule function, at   *)
(* the span [start, end).                                                  *)
(***************************************************************************)
SeqsUpTo(S, n) == UNION { [1..k -> S] : k \in 0..n }

\* The rule functions that find something in the generated statements: the
\* first entry of the table and the last but one, the two that match a plain
\* CREATE INDEX.
MatchingFuncs == { "require_concurrent_index_creation", "prefer_robust_stmts" }

Stmt(syntax, hit, start, end) ==
    [syntax |-> syntax, hit |-> hit, start |-> start, end |-> end]

Stmts ==
    { Stmt("bad", "none", 0, 0), Stmt("ok", "none", 0, 0) }
    \cup { Stmt("ok", f, s, e) : f \in MatchingFuncs,
                                  s \in 0..MaxPos, e \in 0..MaxPos }

Sources == SeqsUpTo({ st \in Stmts : st.start <= st.end }, MaxStmts)

\* The sources whose spans are all empty, [start, start).
PointSources == SeqsUpTo({ st \in Stmts : st.start = st.end }, MaxStmts)

\* The input of test_check_rules_orderin: a RENAME COLUMN statement followed
\* by a CREATE INDEX statement, with prefer-robust-stmts excluded.
ScenarioSql ==
    << Stmt("ok", "renaming_column", 0, 1),
       Stmt("ok", "require_concurrent_index_creation", 1, 1),
       Stmt("ok", "prefer_robust_stmts", 1, 1) >>
ScenarioExcluded == << "prefer-robust-stmts" >>

\* The names an exclusion list is made of: canonical names and names that
\* resolve to no kind.
ExclNames == { "renaming-column", "prefer-robust-stmts", "PreferRobustStmts" }

ExclLists == SeqsUpTo(ExclNames, MaxExcl)

Range(s) == { s[i] : i \in DOMAIN s }

(***************************************************************************)
(* The parser and the rule functions (squawk_parser and rules/*.rs,        *)
(* modelled from the specification).                                       *)
(***************************************************************************)
\* parse_sql_query: the statement sequence, or a syntax error when any
\* statement of the text is malformed.
parse_sql_query(sql) ==
    IF \E i \in DOMAIN sql : sql[i].syntax = "bad"
    THEN Err("ParsingError")
    ELSE Ok(sql)

\* The kind each rule function reports its findings under.
KindOf(func) ==
    CASE func = "require_concurrent_index_creation" -> "RequireConcurrentIndexCreation"
      [] func = "renaming_column"              -> "RenamingColumn"
      [] func = "renaming_table"               -> "RenamingTable"
      [] func = "changing_column_type"         -> "ChangingColumnType"
      [] func = "adding_not_nullable_field"    -> "AddingNotNullableField"
      [] func = "adding_field_with_default"    -> "AddingFieldWithDefault"
      [] func = "disallow_unique_constraint"   -> "DisallowedUniqueConstraint"
      [] func = "constraint_missing_not_valid" -> "ConstraintMissingNotValid"
      [] func = "ban_drop_database"            -> "BanDropDatabase"
      [] func = "prefer_text_field"            -> "PreferTextField"
      [] func = "prefer_robust_stmts"          -> "PreferRobustStmts"
      [] func = "ban_char_type"                -> "BanCharField"

\* The message list of a kind, as registered in the rule table.
MessagesOf(kind) ==
    LET i == CHOOSE j \in DOMAIN RULES : RULES[j].name = kind
    IN  RULES[i].messages

RuleViolation(kind, start, end) ==
    [kind |-> kind, span |-> [start |-> start, end |-> end],
     messages |-> MessagesOf(kind)]

\* A rule function: one violation per statement it matches, in statement
\* order; nothing on an empty statement sequence.
RECURSIVE RunRule(_, _)
RunRule(func, tree) ==
    IF tree = << >> THEN << >>
    ELSE LET st == Head(tree)
             found == IF st.hit = func
                      THEN << RuleViolation(KindOf(func), st.start, st.end) >>
                      ELSE << >>
         IN  found \o RunRule(func, Tail(tree))

(***************************************************************************)
(* Vec::sort_by_key: a stable sort.  An element is inserted after every    *)
(* element whose key is not greater than its own.                          *)
(***************************************************************************)
\* Mutant: an unstable sort, which puts an element before those of equal key.
RECURSIVE InsertByKey_unstable(_, _)
InsertByKey_unstable(sorted, v) ==
    IF sorted = << >> THEN << v >>
    ELSE IF Head(sorted).span.start < v.span.start
         THEN << Head(sorted) >> \o InsertByKey_unstable(Tail(sorted), v)
         ELSE << v >> \o sorted

RECURSIVE InsertByKey(_, _)
InsertByKey(sorted, v) ==
    IF sorted = << >> THEN << v >>
    ELSE IF Head(sorted).span.start <= v.span.start
         THEN << Head(sorted) >> \o InsertByKey(Tail(sorted), v)
         ELSE << v >> \o sorted

RECURSIVE SortFrom(_, _)
SortFrom(sorted, rest) ==
    IF rest = << >> THEN sorted
    ELSE SortFrom(InsertByKey(sorted, Head(rest)), Tail(rest))

\* Mutant: the sort is left out.
sort_by_key_omitted(v) == v

sort_by_key(v) == SortFrom(<< >>, v)

(***************************************************************************)
(* State.                                                                  *)
(***************************************************************************)
VARIABLES
    once,            \* the Once of the lazy_static cell
    cell,            \* the cell's content: << >> until the table is stored
    constructions,   \* how many times the initializer of RULES has run
    pc,              \* each thread's position
    sql,             \* each call's source text
    excluded_names,  \* each call's exclusion list, as given
    tree,            \* each call's parsed statement sequence
    excluded_rules,  \* each call's resolved exclusion set
    idx,             \* each call's position in RULES.iter()
    errs,            \* each call's violation vector
    emitted,         \* history: the rule outputs in the order they were produced
    invoked,         \* history: how often each table entry's function was run
    ret,             \* each call's returned value
    rt               \* the round trips test_parsing_rule_kind has computed

vars == << once, cell, constructions, pc, sql, excluded_names, tree,
           excluded_rules, idx, errs, emitted, invoked, ret, rt >>

callVars == << sql, excluded_names, tree, excluded_rules, idx, errs, emitted,
               invoked, ret >>

NoRet == [ok |-> FALSE, value |-> "pending"]

\* The state in which the threads of `running` are about to start and the
\* calls of `queued` are issued once every other call has returned; `warm`
\* says that an earlier use has already built the table.
InitWith(running, queued, src, excl, warm) ==
    /\ once = IF warm THEN "complete" ELSE "incomplete"
    /\ cell = IF warm THEN RULES ELSE << >>
    /\ constructions = IF warm THEN 1 ELSE 0
    /\ pc = [t \in Threads |->
               IF t \in queued THEN "queued"
               ELSE IF t \notin running THEN "idle"
               ELSE IF t = Tester THEN "rules" ELSE "parse"]
    /\ sql = src
    /\ excluded_names = excl
    /\ tree = [c \in Calls |-> << >>]
    /\ excluded_rules = [c \in Calls |-> {}]
    /\ idx = [c \in Calls |-> 1]
    /\ errs = [c \in Calls |-> << >>]
    /\ emitted = [c \in Calls |-> << >>]
    /\ invoked = [c \in Calls |-> [i \in DOMAIN RULES |-> 0]]
    /\ ret = [c \in Calls |-> NoRet]
    /\ rt = << >>

Only(c, v) == [d \in Calls |-> IF d = c THEN v ELSE << >>]

\* One call of check_sql, on any source and any exclusion list.
Init ==
    \E s \in Sources, x \in ExclLists, warm \in BOOLEAN :
        InitWith({"call1"}, {}, Only("call1", s), Only("call1", x), warm)

\* The exclusion list `x` without the names that resolve to no kind.
Resolving(x) == SelectSeq(x, LAMBDA n : try_from(n).ok)

\* Two calls on the same source, one after the other: the second with the
\* empty exclusion list or with the first's list less its unresolvable names.
InitPair ==
    \E s \in PointSources, x \in ExclLists, y \in ExclLists :
        /\ y \in { << >>, Resolving(x) }
        /\ InitWith({"call1"}, {"call2"}, [c \in Calls |-> s],
                    [c \in Calls |-> IF c = "call1" THEN x ELSE y], FALSE)

\* The unit tests of the crate run as threads of one process, beside one more
\* caller (on the same source, the empty one or a malformed one): all three
\* race on the first use of RULES.
RaceSources == { ScenarioSql, << >>, << Stmt("bad", "none", 0, 0) >> }

InitRace ==
    \E s \in RaceSources, x \in ExclLists :
        InitWith(Threads, {}, [c \in Calls |-> IF c = "call1" THEN ScenarioSql ELSE s],
                 [c \in Calls |-> IF c = "call1" THEN ScenarioExcluded ELSE x],
                 FALSE)

(***************************************************************************)
(* lazy_static! { pub static ref RULES }: the first dereference runs the   *)
(* initializer under a Once; a dereference that finds the initializer      *)
(* running waits for it; later ones read the cell.                         *)
(***************************************************************************)
AfterRules(t) == IF t = Tester THEN "test" ELSE "loop"

\* Mutant: no Once; whoever finds the cell empty runs the initializer.
RulesDeref_unsynchronized(t) ==
    /\ pc[t] = "rules"
    /\ IF cell # << >>
       THEN pc' = [pc EXCEPT ![t] = AfterRules(t)]
       ELSE pc' = [pc EXCEPT ![t] = "init"]
    /\ once' = once
    /\ UNCHANGED << cell, constructions, rt >>
    /\ UNCHANGED callVars

RulesDeref(t) ==
    /\ \/ /\ pc[t] \in {"rules", "wait"}
          /\ once = "complete"
          /\ pc' = [pc EXCEPT ![t] = AfterRules(t)]
          /\ once' = once
       \/ /\ pc[t] = "rules"
          /\ once = "incomplete"
          /\ once' = "running"
          /\ pc' = [pc EXCEPT ![t] = "init"]
       \/ /\ pc[t] = "rules"
          /\ once = "running"
          /\ once' = once
          /\ pc' = [pc EXCEPT ![t] = "wait"]
    /\ UNCHANGED << cell, constructions, rt >>
    /\ UNCHANGED callVars

\* The initializer: vec![SquawkRule {..}, ..] stored into the cell.
RulesInit(t) ==
    /\ pc[t] = "init"
    /\ cell' = RULES
    /\ constructions' = constructions + 1
    /\ once' = "complete"
    /\ pc' = [pc EXCEPT ![t] = AfterRules(t)]
    /\ UNCHANGED rt
    /\ UNCHANGED callVars

(***************************************************************************)
(* check_sql                                                               *)
(***************************************************************************)
\* The caller issues a queued call once the calls before it have returned.
Start(c) ==
    /\ pc[c] = "queued"
    /\ \A d \in Calls \ {c} : pc[d] \in {"done", "idle"}
    /\ pc' = [pc EXCEPT ![c] = "parse"]
    /\ UNCHANGED << once, cell, constructions, rt >>
    /\ UNCHANGED callVars

\* Mutant: the parse error is swallowed (unwrap_or_default in place of `?`).
Parse_swallowed(c) ==
    /\ pc[c] = "parse"
    /\ LET parsed == parse_sql_query(sql[c])
       IN  tree' = [tree EXCEPT ![c] = IF parsed.ok THEN parsed.value ELSE << >>]
    /\ pc' = [pc EXCEPT ![c] = "resolve"]
    /\ UNCHANGED << once, cell, constructions, sql, excluded_names,
                    excluded_rules, idx, errs, emitted, invoked, ret, rt >>

\* Mutant: a source without statements is reported as an error.
Parse_empty_rejected(c) ==
    /\ pc[c] = "parse"
    /\ LET parsed == parse_sql_query(sql[c])
       IN  IF parsed.ok /\ parsed.value # << >>
           THEN /\ tree' = [tree EXCEPT ![c] = parsed.value]
                /\ pc' = [pc EXCEPT ![c] = "resolve"]
                /\ ret' = ret
           ELSE /\ ret' = [ret EXCEPT ![c] = Err("ParsingError")]
                /\ pc' = [pc EXCEPT ![c] = "done"]
                /\ tree' = tree
    /\ UNCHANGED << once, cell, constructions, sql, excluded_names,
                    excluded_rules, idx, errs, emitted, invoked, rt >>

\* let tree = parse_sql_query(sql)?;
Parse(c) ==
    /\ pc[c] = "parse"
    /\ LET parsed == parse_sql_query(sql[c])
       IN  IF parsed.ok
           THEN /\ tree' = [tree EXCEPT ![c] = parsed.value]
                /\ pc' = [pc EXCEPT ![c] = "resolve"]
                /\ ret' = ret
           ELSE /\ ret' = [ret EXCEPT ![c] = Err(parsed.value)]
                /\ pc' = [pc EXCEPT ![c] = "done"]
                /\ tree' = tree
    /\ UNCHANGED << once, cell, constructions, sql, excluded_names,
                    excluded_rules, idx, errs, emitted, invoked, rt >>

\* Mutant: a name that does not resolve falls back to the first kind
\* (unwrap_or in place of ok()).
ResolveExcluded_defaulted(names) ==
    { IF try_from(names[i]).ok THEN try_from(names[i]).value
      ELSE "RequireConcurrentIndexCreation" : i \in DOMAIN names }

\* excluded_rules.iter().flat_map(|s| try_from(s).ok()).collect::<HashSet>()
ResolveExcluded(names) ==
    { try_from(names[i]).value : i \in { j \in DOMAIN names : try_from(names[j]).ok } }

Resolve(c) ==
    /\ pc[c] = "resolve"
    /\ excluded_rules' = [excluded_rules EXCEPT ![c] = ResolveExcluded(excluded_names[c])]
    /\ pc' = [pc EXCEPT ![c] = "rules"]
    /\ UNCHANGED << once, cell, constructions, sql, excluded_names, tree,
                    idx, errs, emitted, invoked, ret, rt >>

\* Mutant: the negation of the filter is lost.
Eligible_inverted(rule, excluded) == rule.name \in excluded

\* .filter(|r| !excluded_rules.contains(&r.name))
Eligible(rule, excluded) == rule.name \notin excluded

\* Mutant: errs is assigned, not extended.
RunNext_assigned(c) ==
    /\ pc[c] = "loop"
    /\ idx[c] <= Len(cell)
    /\ LET rule == cell[idx[c]]
       IN  IF rule.name \notin excluded_rules[c]
           THEN LET out == RunRule(rule.func, tree[c])
                IN  /\ errs' = [errs EXCEPT ![c] = out]
                    /\ emitted' = [emitted EXCEPT ![c] = @ \o out]
                    /\ invoked' = [invoked EXCEPT ![c][idx[c]] = @ + 1]
           ELSE UNCHANGED << errs, emitted, invoked >>
    /\ idx' = [idx EXCEPT ![c] = @ + 1]
    /\ UNCHANGED << once, cell, constructions, pc, sql, excluded_names, tree,
                    excluded_rules, ret, rt >>

\* One entry of RULES.iter().filter(..): errs.extend((rule.func)(&tree)).
RunNext(c) ==
    /\ pc[c] = "loop"
    /\ idx[c] <= Len(cell)
    /\ LET rule == cell[idx[c]]
       IN  IF Eligible(rule, excluded_rules[c])
           THEN LET out == RunRule(rule.func, tree[c])
                IN  /\ errs' = [errs EXCEPT ![c] = @ \o out]
                    /\ emitted' = [emitted EXCEPT ![c] = @ \o out]
                    /\ invoked' = [invoked EXCEPT ![c][idx[c]] = @ + 1]
           ELSE UNCHANGED << errs, emitted, invoked >>
    /\ idx' = [idx EXCEPT ![c] = @ + 1]
    /\ UNCHANGED << once, cell, constructions, pc, sql, excluded_names, tree,
                    excluded_rules, ret, rt >>

\* errs.sort_by_key(|v| v.span.start); Ok(errs)
SortAndReturn(c) ==
    /\ pc[c] = "loop"
    /\ idx[c] > Len(cell)
    /\ errs' = [errs EXCEPT ![c] = sort_by_key(@)]
    /\ ret' = [ret EXCEPT ![c] = Ok(errs'[c])]
    /\ pc' = [pc EXCEPT ![c] = "done"]
    /\ UNCHANGED << once, cell, constructions, sql, excluded_names, tree,
                    excluded_rules, idx, emitted, invoked, rt >>

(***************************************************************************)
(* test_parsing_rule_kind: for every rule name of the table, the string    *)
(* form is parsed back and compared with the name.                         *)
(***************************************************************************)
TestParsingRuleKind ==
    /\ pc[Tester] = "test"
    /\ rt' = [i \in DOMAIN cell |->
                [rule |-> cell[i].name,
                 name |-> to_string(cell[i].name),
                 parsed |-> try_from(to_string(cell[i].name))]]
    /\ pc' = [pc EXCEPT ![Tester] =
                IF \A i \in DOMAIN cell : rt'[i].parsed = Ok(rt'[i].rule)
                THEN "passed" ELSE "panicked"]
    /\ UNCHANGED << once, cell, constructions >>
    /\ UNCHANGED callVars

CheckSqlStep(c) ==
    \/ Parse(c)
    \/ Resolve(c)
    \/ RulesDeref(c)
    \/ RulesInit(c)
    \/ RunNext(c)
    \/ SortAndReturn(c)

Next == \E c \in Calls : CheckSqlStep(c)

Spec == Init /\ [][Next]_vars

NextPair ==
    \/ \E c \in Calls : Start(c)
    \/ \E c \in Calls : CheckSqlStep(c)

SpecPair == InitPair /\ [][NextPair]_vars

NextRace ==
    \/ \E c \in Calls : CheckSqlStep(c)
    \/ RulesDeref(Tester)
    \/ RulesInit(Tester)
    \/ TestParsingRuleKind

SpecRace == InitRace /\ [][NextRace]_vars

(***************************************************************************)
(* Properties.                                                             *)
(***************************************************************************)
Returned(c) == pc[c] = "done" /\ ret[c].ok

Count(v, x) == Cardinality({ i \in DOMAIN v : v[i] = x })

IsPermutation(v, w) ==
    /\ Len(v) = Len(w)
    /\ \A x \in Range(v) \cup Range(w) : Count(v, x) = Count(w, x)

\* The kinds whose canonical name is in the exclusion list `names`.
KindsNamed(names) == { k \in RuleViolationKind : to_string(k) \in Range(names) }

\* The outputs of the table's rules from entry i on, leaving out the rules
\* of the kinds in S, on `t`.
RECURSIVE OutputsFrom(_, _, _)
OutputsFrom(i, S, t) ==
    IF i > Len(RULES) THEN << >>
    ELSE (IF RULES[i].name \in S THEN << >> ELSE RunRule(RULES[i].func, t))
         \o OutputsFrom(i + 1, S, t)

\* The violations of `v` with span.start = p, in the order of `v`.
AtStart(v, p) == SelectSeq(v, LAMBDA x : x.span.start = p)

TableIndex(kind) == CHOOSE i \in DOMAIN RULES : RULES[i].name = kind

\* C1: the list check_sql returns is ordered by span.start: each violation
\* starts no later than the one after it.
C1_SortInvariant ==
    \A c \in Calls : Returned(c) =>
        \A i \in 1..(Len(ret[c].value) - 1) :
            ret[c].value[i].span.start <= ret[c].value[i + 1].span.start

\* A call has returned a list that the rules had produced out of order.
C1_Witness ==
    \E c \in Calls :
        /\ Returned(c)
        /\ Len(ret[c].value) >= 2
        /\ \E i \in 1..(Len(emitted[c]) - 1) :
              emitted[c][i].span.start > emitted[c][i + 1].span.start

\* C2: with the canonical names of a set S of kinds excluded, check_sql
\* returns no violation of a kind in S, and returns exactly the list of the
\* unexcluded run on the same source with the violations of kind in S
\* removed, in the same relative order.
C2_ExclusionLaw ==
    LET S == KindsNamed(excluded_names["call1"])
    IN  ( /\ Returned("call1") /\ Returned("call2")
          /\ excluded_names["call2"] = << >>
          /\ \A n \in Range(excluded_names["call1"]) :
                \E k \in RuleViolationKind : to_string(k) = n )
        => /\ \A i \in DOMAIN ret["call1"].value : ret["call1"].value[i].kind \notin S
           /\ ret["call1"].value
                = SelectSeq(ret["call2"].value, LAMBDA v : v.kind \notin S)

\* Both runs have returned; the unexcluded one found a violation of an
\* excluded kind and one of a kind that is not excluded.
C2_Witness ==
    LET S == KindsNamed(excluded_names["call1"])
    IN  /\ Returned("call1") /\ Returned("call2")
        /\ excluded_names["call2"] = << >>
        /\ excluded_names["call1"] # << >>
        /\ \A n \in Range(excluded_names["call1"]) :
              \E k \in RuleViolationKind : to_string(k) = n
        /\ \E i, j \in DOMAIN ret["call2"].value :
              /\ ret["call2"].value[i].kind \in S
              /\ ret["call2"].value[j].kind \notin S
        /\ ret["call1"].value # << >>

\* C3: on a source the parser rejects, check_sql returns the parse failure,
\* before it resolves the exclusions and without running any rule.
C3_ParseFailureShortCircuit ==
    \A c \in Calls :
        (~ parse_sql_query(sql[c]).ok) =>
            /\ pc[c] \in {"idle", "queued", "parse", "done"}
            /\ pc[c] = "done" => ret[c] = Err("ParsingError")
            /\ excluded_rules[c] = {}
            /\ \A i \in DOMAIN RULES : invoked[c][i] = 0
            /\ errs[c] = << >> /\ emitted[c] = << >>

\* A call on a malformed source has returned; its exclusion list named a
\* rule and held a name that does not resolve.
C3_Witness ==
    \E c \in Calls :
        /\ pc[c] = "done"
        /\ ~ ret[c].ok
        /\ \E n \in Range(excluded_names[c]) : try_from(n).ok
        /\ \E n \in Range(excluded_names[c]) : ~ try_from(n).ok

\* C4: names that resolve to no kind have no effect: a call returns what the
\* call on the same source returns whose exclusion list is the same list
\* without those names (the empty list, when no name resolves), and it
\* fails only when the source does not parse.
C4_UnknownExclusionTolerance ==
    /\ \A c \in Calls : pc[c] = "done" => ret[c].ok = parse_sql_query(sql[c]).ok
    /\ ( /\ pc["call1"] = "done" /\ pc["call2"] = "done"
         /\ excluded_names["call2"] = Resolving(excluded_names["call1"]) )
       => ret["call1"] = ret["call2"]

\* Both runs have returned violations; the first one's list held a name
\* that does not resolve, the second one's did not.
C4_Witness ==
    /\ Returned("call1") /\ Returned("call2")
    /\ excluded_names["call2"] = Resolving(excluded_names["call1"])
    /\ excluded_names["call2"] # excluded_names["call1"]
    /\ ret["call2"].value # << >>

\* C5: for every kind of the rule table, the canonical string resolves back
\* to that kind; the test passes, covers the twelve kinds, and no two kinds
\* have the same canonical name.
C5_RoundTripLaw ==
    /\ pc[Tester] # "panicked"
    /\ pc[Tester] = "passed" =>
          /\ Len(rt) = 12
          /\ { rt[i].rule : i \in DOMAIN rt } = RuleViolationKind
          /\ \A i \in DOMAIN rt : rt[i].parsed = Ok(rt[i].rule)
          /\ \A i, j \in DOMAIN rt : rt[i].name = rt[j].name => i = j

\* The test has run over the table.
C5_Witness == pc[Tester] = "passed" /\ Len(rt) = Len(RULES)

\* C6: when check_sql returns a list, every rule of the table whose kind is
\* not excluded has been run exactly once on the whole statement sequence,
\* no excluded rule has been run, and the list is a permutation of the
\* concatenation of those rules' outputs.
C6_AllOrNothing ==
    \A c \in Calls : Returned(c) =>
        /\ tree[c] = sql[c]
        /\ \A i \in DOMAIN RULES :
              invoked[c][i] = IF RULES[i].name \in excluded_rules[c] THEN 0 ELSE 1
        /\ emitted[c] = OutputsFrom(1, excluded_rules[c], tree[c])
        /\ IsPermutation(ret[c].value, emitted[c])

\* A call has returned the findings of two rules while a third was excluded.
C6_Witness ==
    \E c \in Calls :
        /\ Returned(c)
        /\ excluded_rules[c] # {}
        /\ Len(ret[c].value) >= 2
        /\ \E i, j \in DOMAIN ret[c].value :
              ret[c].value[i].kind # ret[c].value[j].kind

\* The value a call gives when it runs alone.
CheckSqlAlone(src, names) ==
    IF ~ parse_sql_query(src).ok THEN Err("ParsingError")
    ELSE Ok(sort_by_key(OutputsFrom(1, KindsNamed(names), src)))

\* C7: under concurrent first use the table is built exactly once, no thread
\* reads it before it is complete, it is not changed afterwards, and each
\* call returns what it returns when run alone.
C7_LazyInitOnce ==
    /\ constructions <= 1
    /\ once = "complete" <=> constructions = 1
    /\ cell = IF once = "complete" THEN RULES ELSE << >>
    /\ Cardinality({ t \in Threads : pc[t] = "init" }) <= 1
    /\ \A t \in Threads :
          pc[t] \in {"loop", "test", "passed", "panicked"} =>
              cell = RULES /\ Len(cell) = 12
    /\ \A c \in Calls : pc[c] = "done" /\ ret[c].ok => cell = RULES
    /\ \A c \in Calls :
          pc[c] = "done" => ret[c] = CheckSqlAlone(sql[c], excluded_names[c])

\* The initializer has just finished while the two other threads were
\* waiting for it.
C7_Witness ==
    \E t \in Threads :
        /\ constructions = 1
        /\ pc[t] = AfterRules(t)
        /\ \A u \in Threads \ {t} : pc[u] = "wait"

\* C8: on a source without statements check_sql returns the empty list, not
\* an error, whatever the exclusion list; every rule that ran on the empty
\* statement sequence contributed nothing.
C8_Emptiness ==
    \A c \in Calls : (sql[c] = << >> /\ pc[c] = "done") =>
        /\ ret[c] = Ok(<< >>)
        /\ emitted[c] = << >>
        /\ \A i \in DOMAIN RULES :
              RULES[i].name \notin excluded_rules[c] => invoked[c][i] = 1

\* A call on the empty source has returned, with a rule excluded.
C8_Witness ==
    \E c \in Calls :
        /\ sql[c] = << >>
        /\ pc[c] = "done"
        /\ excluded_rules[c] # {}
        /\ \E i \in DOMAIN RULES : invoked[c][i] = 1

\* C9: violations with the same span.start are returned in the order they
\* were collected: those of an earlier table entry first and, within one
\* rule, in the order the rule produced them.
C9_StableTieBreak ==
    \A c \in Calls : Returned(c) =>
        /\ \A p \in 0..MaxPos :
              AtStart(ret[c].value, p) = AtStart(emitted[c], p)
        /\ \A i, j \in DOMAIN ret[c].value :
              ( /\ i < j
                /\ ret[c].value[i].span.start = ret[c].value[j].span.start )
              => TableIndex(ret[c].value[i].kind) <= TableIndex(ret[c].value[j].kind)

\* A call has returned two violations with the same start and different
\* ends.
C9_Witness ==
    \E c \in Calls :
        /\ Returned(c)
        /\ \E i, j \in DOMAIN ret[c].value :
              /\ i < j
              /\ ret[c].value[i].span.start = ret[c].value[j].span.start
              /\ ret[c].value[i].span.end # ret[c].value[j].span.end

\* C10: no two entries of the table have the same kind, the built table is
\* the registered one in the registered order at all times, and a call with
\* resolvable names excluded leaves out exactly one table entry per
\* excluded kind.
C10_UniqueKinds ==
    /\ \A i, j \in DOMAIN cell : cell[i].name = cell[j].name => i = j
    /\ cell \in { << >>, RulesInitializer }
    /\ constructions >= 1 => cell = RulesInitializer
    /\ \A c \in Calls : Returned(c) =>
          Cardinality({ i \in DOMAIN cell : invoked[c][i] = 0 })
             = Cardinality(excluded_rules[c])

\* Two calls have returned one after the other, the first with two kinds
\* excluded.
C10_Witness ==
    /\ Returned("call1") /\ Returned("call2")
    /\ Cardinality(excluded_rules["call1"]) = 2
    /\ Cardinality({ i \in DOMAIN cell : invoked["call1"][i] = 0 }) = 2

====
